---- MODULE Spec2Model ----
(***************************************************************************)
(* Partitioned, checkpointed batch processing of swiss-ai/post-training:   *)
(*   - compute_subpartition_start_end_indices and the chunk loop of        *)
(*     data_alignment/generate_ref_completions_with_vllm_swissaiformat.py  *)
(*   - the last-checkpoint scan and resume of train_preference.py          *)
(*                                                                         *)
(* The generation script is kept in the repository with every line         *)
(* commented out; the model follows its text line by line.                 *)
(*                                                                         *)
(* File names are sequences of tokens: one token per character, except     *)
(* that the literal word "checkpoint" is a single token (no operation of   *)
(* the code looks inside it).  "checkpoint-64" is                          *)
(* <<"checkpoint", "-", "6", "4">>.                                         *)
(***************************************************************************)
EXTENDS Integers, Sequences, FiniteSets, TLC

VARIABLES
    \* ---- job configuration (static for one job)
    partition_start_idx,     \* config.partition_start_idx
    partition_end_idx,       \* config.partition_end_idx
    num_subpartitions,       \* num_gpus_per_node // tensor_parallel_size
    subpartition_number,     \* config.subpartition_number
    save_interval,           \* config.save_interval
    \* ---- results of the partition index calculator, one per worker id
    subparts,
    \* ---- the file system: the resuming directory (Path.cwd()), name -> entry
    resuming_dir,
    \* ---- one run of the generation script
    pc,                          \* where main() is
    subpartition_data,           \* the selected rows of the dataset
    already_processed_samples,   \* what the checkpoint scan returned
    local_start_idx,
    local_end_idx,
    processed_chunk,             \* what generate_completions_batch returned
    \* ---- history of the generation job across launches
    launches,                    \* number of launches so far
    calls,                       \* slices handed to the transform in this run
    created,                     \* offsets of the checkpoint directories, as created
    completed,                   \* number of chunks saved to the end
    last_exit,                   \* how and where the last ended run ended
    finished,                    \* the first run that ended with the partition complete
    \* ---- the two checkpoint scans applied to a directory
    scan_gen,                    \* outcome of the generation script's scan
    scan_train,                  \* outcome of the training driver's scan
    \* ---- one run of the training driver
    tpc,                         \* where main() of train_preference.py is
    last_checkpoint_number,
    eval_on_start,               \* training_args.eval_on_start
    resume_from_checkpoint,      \* the argument of trainer.train
    trainer_checkpoint,          \* the checkpoint number the trainer loads
    \* ---- accelerator devices of the generation workers
    num_gpus_per_node,           \* config.num_gpus_per_node
    tensor_parallel_size,        \* config.model_vllm_config.tensor_parallel_size
    cuda_devices,                \* per worker: cuda_devices and CUDA_VISIBLE_DEVICES
    \* ---- generation workers running side by side
    workers,                     \* per worker: position, sub-range, loop indices
    processed,                   \* per worker: the dataset indices given to the transform
    worker_dirs,                 \* per resuming directory: its entries
    writers,                     \* per resuming directory: the workers that saved into it
    \* ---- tokenizer setup
    loaded,                      \* what AutoTokenizer.from_pretrained gives for the model
    tc,                          \* the TokenizerConfig handed to get_tokenizer
    get_tokenizer_result,        \* outcome of get_tokenizer(tc)
    tokenizer_args_pad_token_id, \* config.tokenizer_args.pad_token_id of the driver
    tokenizer,                   \* the training driver's tokenizer
    \* ---- launches of the training driver and its final evaluation
    eval_strategy,               \* training_args.eval_strategy of the current launch
    train_launches,              \* launches of the driver so far
    decisions,                   \* per launch that got to line 209: what it did
    produced,                    \* the first launch whose save_metrics returned (0: none)
    \* ---- shutdown of the processes of the training driver
    num_processes,               \* acc_state.num_processes
    procs,                       \* per process: where it is in lines 220-226
    finishers,                   \* the processes that executed wandb.finish(), in order
    \* ---- dataset setup of the training driver
    raw_ds,                      \* what load_dataset_flexible returns: columns per split
    dataset_test_split,          \* config.script_args.dataset_test_split
    ds                           \* the DatasetDict handed to the trainer

confVars == <<partition_start_idx, partition_end_idx, num_subpartitions,
              subpartition_number, save_interval>>
genVars == <<pc, subpartition_data, already_processed_samples, local_start_idx,
             local_end_idx, processed_chunk>>
histVars == <<launches, calls, created, completed, last_exit, finished>>
scanVars == <<scan_gen, scan_train>>
trainVars == <<tpc, last_checkpoint_number, eval_on_start, resume_from_checkpoint,
               trainer_checkpoint>>
devVars == <<num_gpus_per_node, tensor_parallel_size, cuda_devices>>
\* the state of the components of which the actions further down touch one each
wrkVars == <<workers, processed, worker_dirs, writers>>
tokVars == <<loaded, tc, get_tokenizer_result, tokenizer_args_pad_token_id, tokenizer>>
evalVars == <<eval_strategy, train_launches, decisions, produced>>
shutVars == <<num_processes, procs, finishers>>
dsVars == <<raw_ds, dataset_test_split, ds>>
sideVars == <<devVars, wrkVars, tokVars, evalVars, shutVars, dsVars>>
coreVars == <<confVars, subparts, resuming_dir, genVars, histVars, scanVars, trainVars>>
vars == <<confVars, subparts, resuming_dir, genVars, histVars, scanVars, trainVars,
          sideVars>>

\* ------------------------------------------------------------------ bounds
MaxIdx == 5
MaxWorkers == 4
MaxEnd == 5          \* largest partition_end_idx of a generation job
MaxInterval == 3     \* largest save_interval
MaxLaunches == 3     \* launches of one job (first run plus restarts)
MaxScanN == 2        \* checkpoint-1 .. checkpoint-MaxScanN in a scanned directory
MaxGpus == 6         \* largest num_gpus_per_node
MaxWorkerNo == 2     \* concurrent workers have subpartition numbers 0 .. MaxWorkerNo
MaxWorkEnd == 5      \* largest partition_end_idx of the concurrent workers
MaxTokenId == 1      \* token ids 0 .. MaxTokenId
MaxTrainLaunches == 3  \* launches of the training driver on one output directory
MaxStale == 7        \* largest offset of a checkpoint found before the first launch
MaxProcs == 4        \* processes of the training driver

\* ------------------------------------------------------------ arithmetic
Min(a, b) == IF a <= b THEN a ELSE b
Max(a, b) == IF a >= b THEN a ELSE b

\* math.ceil(a / b) for integers a and b > 0 (the float quotient is exact
\* for the magnitudes a dataset index can take, below 2^53)
CeilDiv(a, b) == -((-a) \div b)

\* the integers of range(a, b)
Range(a, b) == a .. (b - 1)

SetMax(S) == CHOOSE m \in S : \A x \in S : x <= m
SetMin(S) == CHOOSE m \in S : \A x \in S : m <= x

\* ------------------------------------------------------------ file names
Digits == <<"0", "1", "2", "3", "4", "5", "6", "7", "8", "9">>
IsDigit(t) == \E i \in 1 .. 10 : Digits[i] = t
DigitValue(t) == (CHOOSE i \in 1 .. 10 : Digits[i] = t) - 1

\* str(n) of a non-negative integer, as in f"...{n}"
RECURSIVE Str(_)
Str(n) == IF n < 10 THEN <<Digits[n + 1]>>
          ELSE Str(n \div 10) \o <<Digits[(n % 10) + 1]>>

\* f"checkpoint-{n}"
CheckpointName(n) == <<"checkpoint", "-">> \o Str(n)

\* name.startswith("checkpoint-")
StartsWithCheckpoint(name) ==
    /\ Len(name) >= 2
    /\ name[1] = "checkpoint"
    /\ name[2] = "-"

\* name.split("-")[-1]: what follows the last "-" (the whole name without one)
LastSegment(name) ==
    LET dashes == {i \in 1 .. Len(name) : name[i] = "-"}
        from == IF dashes = {} THEN 1 ELSE SetMax(dashes) + 1
    IN  SubSeq(name, from, Len(name))

\* int(s) succeeds on a non-empty run of decimal digits and raises ValueError
\* on the empty string and on any other character of the alphabet
IntParses(s) == Len(s) >= 1 /\ \A i \in 1 .. Len(s) : IsDigit(s[i])

RECURSIVE IntValue(_)
IntValue(s) == IF Len(s) = 0 THEN 0
               ELSE 10 * IntValue(SubSeq(s, 1, Len(s) - 1)) + DigitValue(s[Len(s)])

\* the name is exactly checkpoint-<integer>
IsCheckpointPattern(name) ==
    /\ StartsWithCheckpoint(name)
    /\ IntParses(SubSeq(name, 3, Len(name)))

\* ---------------------------------------------- partition index calculator
\* variant: end_idx not clipped to partition_end_idx
\* variant: the end index reaches one item into the next worker's sub-range
MutOverlapSubpartition(ps, pe, k, n) ==
    LET subpartition_size == CeilDiv(pe - ps, n)
    IN  <<ps + k * subpartition_size, Min(ps + (k + 1) * subpartition_size + 1, pe)>>

\* variant: the size is rounded down
MutFloorSubpartition(ps, pe, k, n) ==
    LET subpartition_size == (pe - ps) \div n
        start_idx == ps + k * subpartition_size
        end_idx == Min(ps + (k + 1) * subpartition_size, pe)
    IN  <<start_idx, end_idx>>

MutNoClipSubpartition(ps, pe, k, n) ==
    LET subpartition_size == CeilDiv(pe - ps, n)
    IN  <<ps + k * subpartition_size, ps + (k + 1) * subpartition_size>>

compute_subpartition_start_end_indices(ps, pe, k, n) ==
    LET subpartition_size == CeilDiv(pe - ps, n)
        start_idx == ps + k * subpartition_size
        end_idx == Min(ps + (k + 1) * subpartition_size, pe)
    IN  <<start_idx, end_idx>>

\* ------------------------------------------------------ directory entries
\* files: the plain files directly inside a directory; subdirs: the names of
\* the directories nested in it; rows/complete: what save_to_disk has written
Entry(is_dir, files, subdirs, rows, complete) ==
    [is_dir |-> is_dir, files |-> files, subdirs |-> subdirs,
     rows |-> rows, complete |-> complete]

PlainFile == Entry(FALSE, {}, {}, <<>>, TRUE)
PlainDir(files, subdirs) == Entry(TRUE, files, subdirs, <<>>, TRUE)

\* directory d with entry e written under name
WriteEntry(d, name, e) ==
    [n \in DOMAIN d \cup {name} |-> IF n = name THEN e ELSE d[n]]

\* --------------------------------- checkpoint scan of the generation script
\* max((int(item.name.split("-")[-1]) for item in resuming_dir.iterdir()
\*      if item.is_dir() and item.name.startswith("checkpoint-")), default=0)
GenMatched(d) == {n \in DOMAIN d : d[n].is_dir /\ StartsWithCheckpoint(n)}

\* variant: the filter keeps plain files instead of directories
MutScanFiles(d) ==
    LET matched == {n \in DOMAIN d : ~d[n].is_dir /\ StartsWithCheckpoint(n)}
    IN  IF \E n \in matched : ~IntParses(LastSegment(n))
        THEN [raised |-> TRUE, value |-> 0]
        ELSE [raised |-> FALSE,
              value |-> IF matched = {} THEN 0
                        ELSE SetMax({IntValue(LastSegment(n)) : n \in matched})]

\* variant: min instead of max
MutScanMin(d) ==
    IF \E n \in GenMatched(d) : ~IntParses(LastSegment(n))
    THEN [raised |-> TRUE, value |-> 0]
    ELSE [raised |-> FALSE,
          value |-> IF GenMatched(d) = {} THEN 0
                    ELSE SetMin({IntValue(LastSegment(n)) : n \in GenMatched(d)})]

GenScan(d) ==
    IF \E n \in GenMatched(d) : ~IntParses(LastSegment(n))
    THEN [raised |-> TRUE, value |-> 0]
    ELSE [raised |-> FALSE,
          value |-> IF GenMatched(d) = {} THEN 0
                    ELSE SetMax({IntValue(LastSegment(n)) : n \in GenMatched(d)})]

\* -------------------------------- checkpoint scan of the training driver
\* for item in resuming_dir.iterdir():
\*     if item.is_dir() and item.name.startswith("checkpoint-"):
\*         if (item / "scheduler.pt").is_file() and (item / "trainer_state.json").is_file():
\*             last_checkpoint_number = max(last_checkpoint_number, int(...))
CompanionFiles == {"scheduler.pt", "trainer_state.json"}

TrainMatched(d) == {n \in GenMatched(d) : CompanionFiles \subseteq d[n].files}

\* variant: only trainer_state.json is tested
MutTrainMatchedOneFile(d) ==
    {n \in GenMatched(d) : "trainer_state.json" \in d[n].files}

TrainScan(d) ==
    IF \E n \in TrainMatched(d) : ~IntParses(LastSegment(n))
    THEN [raised |-> TRUE, value |-> 0]
    ELSE [raised |-> FALSE,
          value |-> SetMax({0} \cup {IntValue(LastSegment(n)) : n \in TrainMatched(d)})]

\* ------------------------------------------------- the per-chunk transform
\* generate_completions_batch: one 2-entry conversation per sample, in order
generate_completions_batch(batch) ==
    [i \in 1 .. Len(batch) |->
        [user |-> batch[i], assistant |-> <<"completions", batch[i]>>]]

\* dataset.select(range(a, b)) on a dataset held as a sequence (0-based a, b)
Select(data, a, b) == SubSeq(data, a + 1, b)

\* ----------------------------------------- specification: the calculator
GenIdle ==
    /\ pc = "off"
    /\ subpartition_data = <<>>
    /\ already_processed_samples = 0
    /\ local_start_idx = 0
    /\ local_end_idx = 0
    /\ processed_chunk = <<>>
    /\ launches = 0
    /\ calls = <<>>
    /\ created = <<>>
    /\ completed = 0
    /\ last_exit = [exit |-> "none", pc |-> "off", start |-> 0, dir |-> <<>>,
                    run |-> 0]
    /\ finished = [run |-> 0, dir |-> <<>>, created |-> <<>>]

\* a scan that has not run
NotRun == [raised |-> FALSE, value |-> -1]

ScanIdle ==
    /\ scan_gen = NotRun
    /\ scan_train = NotRun

\* ------------------------------------------------------------ tokenizers
\* Python's None where an int, a str made of pieces, or a name is expected
NoneId == -1
NoneStr == <<"<None>">>
NoneName == "<None>"

\* tokenizer.convert_ids_to_tokens(id): distinct ids are distinct tokens
convert_ids_to_tokens(id) ==
    IF id = NoneId THEN NoneStr ELSE <<"<tok">> \o Str(id) \o <<">">>

pad_token(t) == convert_ids_to_tokens(t.pad_token_id)
eos_token(t) == convert_ids_to_tokens(t.eos_token_id)
bos_token(t) == convert_ids_to_tokens(t.bos_token_id)

Tokenizer(pad, eos, bos, template) ==
    [pad_token_id |-> pad, eos_token_id |-> eos, bos_token_id |-> bos,
     chat_template |-> template]

NoTokenizer == Tokenizer(NoneId, NoneId, NoneId, NoneStr)

NotCalled == [outcome |-> "not called", error |-> "", tokenizer |-> NoTokenizer]

TokIdle ==
    /\ loaded = [tokenizer |-> NoTokenizer, reload_raises |-> FALSE]
    /\ tc = [chat_template_name |-> NoneName, add_bos_to_chat_template |-> FALSE,
             model_pad_token_id |-> NoneId, model_eos_token_id |-> NoneId]
    /\ get_tokenizer_result = NotCalled
    /\ tokenizer_args_pad_token_id = NoneId
    /\ tokenizer = NoTokenizer

EvalIdle ==
    /\ eval_strategy = "no"
    /\ train_launches = 0
    /\ decisions = <<>>
    /\ produced = 0

ShutIdle ==
    /\ num_processes = 1
    /\ procs = <<>>
    /\ finishers = <<>>

DsIdle ==
    /\ raw_ds = <<>>
    /\ dataset_test_split = "<None>"
    /\ ds = <<>>

DevIdle ==
    /\ num_gpus_per_node = 1
    /\ tensor_parallel_size = 1
    /\ cuda_devices = <<>>

WrkIdle ==
    /\ workers = <<>>
    /\ processed = <<>>
    /\ worker_dirs = <<>>
    /\ writers = <<>>

TrainIdle ==
    /\ tpc = "off"
    /\ last_checkpoint_number = 0
    /\ eval_on_start = FALSE
    /\ resume_from_checkpoint = FALSE
    /\ trainer_checkpoint = -1

PartInit ==
    /\ partition_start_idx \in (-1) .. MaxIdx
    /\ partition_end_idx \in partition_start_idx .. MaxIdx
    /\ num_subpartitions \in 1 .. MaxWorkers
    /\ subpartition_number = 0
    /\ save_interval = 1
    /\ subparts = <<>>
    /\ resuming_dir = <<>>
    /\ GenIdle
    /\ ScanIdle
    /\ DevIdle
    /\ WrkIdle
    /\ ShutIdle
    /\ DsIdle
    /\ EvalIdle
    /\ TokIdle
    /\ TrainIdle

\* one call of the calculator, for a worker id not yet computed
PartCompute(k) ==
    /\ k \notin DOMAIN subparts
    /\ subparts' = [w \in DOMAIN subparts \cup {k} |->
                      IF w = k
                      THEN compute_subpartition_start_end_indices(
                               partition_start_idx, partition_end_idx, k,
                               num_subpartitions)
                      ELSE subparts[w]]
    /\ UNCHANGED <<sideVars, confVars, resuming_dir, genVars, histVars, scanVars, trainVars>>

PartNext == \E k \in 0 .. (num_subpartitions - 1) : PartCompute(k)

SpecPartition == PartInit /\ [][PartNext]_vars

\* ------------------------------------- the generation script, main()
\* what the job directory holds before the first run: the run's own
\* configuration directory and its log file
InitialDir ==
    [n \in {<<".", "h">>, <<"m", ".", "l">>} |->
        IF n = <<".", "h">> THEN PlainDir({"config.yaml"}, {}) ELSE PlainFile]

\* variant: every slice has one item
MutSliceOneItem ==
    <<local_start_idx, Min(local_start_idx + 1, Len(subpartition_data))>>

\* variant: the slice is one item longer than save_interval
MutSliceOffByOne ==
    <<local_start_idx,
      Min(local_start_idx + save_interval + 1, Len(subpartition_data))>>

\* current_slice = (local_start_idx,
\*                  min(local_start_idx + save_interval, len(subpartition_data)))
CurrentSlice ==
    <<local_start_idx,
      Min(local_start_idx + save_interval, Len(subpartition_data))>>

CurrentSliceData == Select(subpartition_data, CurrentSlice[1], CurrentSlice[2])

Ended(kind) ==
    [exit |-> kind, pc |-> pc, start |-> local_start_idx, dir |-> resuming_dir,
     run |-> launches]

\* variant: a sub-range with start_idx = end_idx is not detected as empty
MutEmptyStrict(se) == se[1] > se[2]

\* line 117: if subpartition_start_idx >= subpartition_end_idx
IsEmptySubpartition(se) == se[1] >= se[2]

GenInit ==
    /\ partition_start_idx \in 0 .. 1
    /\ partition_end_idx \in 0 .. MaxEnd
    /\ num_subpartitions \in 1 .. 2
    /\ subpartition_number \in 0 .. (num_subpartitions - 1)
    /\ save_interval \in 1 .. MaxInterval
    /\ subparts = <<>>
    /\ resuming_dir = InitialDir
    /\ GenIdle
    /\ ScanIdle
    /\ DevIdle
    /\ WrkIdle
    /\ ShutIdle
    /\ DsIdle
    /\ EvalIdle
    /\ TokIdle
    /\ TrainIdle

\* lines 91-123: a process is started; it computes its sub-range, exits when
\* the sub-range is empty and selects its rows otherwise
StartProcess(run) ==
    /\ pc \in {"off", "crashed", "done", "failed"}
    /\ launches' = run
    /\ calls' = <<>>
    /\ already_processed_samples' = 0
    /\ local_start_idx' = 0
    /\ local_end_idx' = 0
    /\ processed_chunk' = <<>>
    /\ LET se == compute_subpartition_start_end_indices(
                    partition_start_idx, partition_end_idx,
                    subpartition_number, num_subpartitions)
       IN  IF IsEmptySubpartition(se)
           THEN /\ pc' = "done"
                /\ subpartition_data' = <<>>
                /\ last_exit' = [exit |-> "empty", pc |-> "launch", start |-> 0,
                                 dir |-> resuming_dir, run |-> run]
           ELSE /\ pc' = "scan"
                /\ subpartition_data' = [i \in 1 .. (se[2] - se[1]) |-> se[1] + i - 1]
                /\ UNCHANGED last_exit
    /\ UNCHANGED <<sideVars, scanVars, trainVars, confVars, subparts, resuming_dir, created, completed, finished>>

\* a launch of the script, the launches being counted
Launch ==
    /\ launches < MaxLaunches
    /\ StartProcess(launches + 1)

\* lines 126-146: the checkpoint scan and the already-complete test
Scan ==
    /\ pc = "scan"
    /\ LET r == GenScan(resuming_dir)
       IN  /\ already_processed_samples' = r.value
           /\ IF r.raised
              THEN /\ pc' = "failed"
                   /\ last_exit' = Ended("failed")
                   /\ UNCHANGED <<local_start_idx, finished>>
              ELSE IF r.value = Len(subpartition_data)
              THEN /\ pc' = "done"
                   /\ last_exit' = Ended("complete")
                   /\ finished' = IF finished.run = 0
                                 THEN [run |-> launches, dir |-> resuming_dir,
                                       created |-> created]
                                 ELSE finished
                   /\ UNCHANGED local_start_idx
              ELSE /\ pc' = "loop"
                   /\ local_start_idx' = r.value
                   /\ UNCHANGED <<last_exit, finished>>
    /\ UNCHANGED <<sideVars, scanVars, trainVars, confVars, subparts, resuming_dir, subpartition_data,
                   local_end_idx, processed_chunk, launches, calls, created,
                   completed>>

\* variant: the loop stops when less than a whole chunk is left
MutLoopHeadWholeChunks ==
    /\ pc = "loop"
    /\ IF local_start_idx + save_interval <= Len(subpartition_data)
       THEN /\ local_end_idx' = local_start_idx + Len(CurrentSliceData)
            /\ calls' = Append(calls, CurrentSlice)
            /\ pc' = "processing"
            /\ UNCHANGED <<last_exit, finished>>
       ELSE /\ pc' = "done"
            /\ last_exit' = Ended("complete")
            /\ finished' = IF finished.run = 0
                                 THEN [run |-> launches, dir |-> resuming_dir,
                                       created |-> created]
                                 ELSE finished
            /\ UNCHANGED <<local_end_idx, calls>>
    /\ UNCHANGED <<sideVars, scanVars, trainVars, confVars, subparts, resuming_dir, subpartition_data,
                   already_processed_samples, local_start_idx, processed_chunk,
                   launches, created, completed>>

\* variant: the loop goes on until local_start_idx equals the length
MutLoopHeadUntilEqual ==
    /\ pc = "loop"
    /\ IF local_start_idx # Len(subpartition_data)
       THEN /\ local_end_idx' = local_start_idx + Len(CurrentSliceData)
            /\ calls' = Append(calls, CurrentSlice)
            /\ pc' = "processing"
            /\ UNCHANGED <<last_exit, finished>>
       ELSE /\ pc' = "done"
            /\ last_exit' = Ended("complete")
            /\ finished' = IF finished.run = 0
                                 THEN [run |-> launches, dir |-> resuming_dir,
                                       created |-> created]
                                 ELSE finished
            /\ UNCHANGED <<local_end_idx, calls>>
    /\ UNCHANGED <<sideVars, scanVars, trainVars, confVars, subparts, resuming_dir, subpartition_data,
                   already_processed_samples, local_start_idx, processed_chunk,
                   launches, created, completed>>

\* lines 150-160: the loop test, the slice, and the call of the transform;
\* line 174 when the loop ends
LoopHead ==
    /\ pc = "loop"
    /\ IF local_start_idx < Len(subpartition_data)
       THEN /\ local_end_idx' = local_start_idx + Len(CurrentSliceData)
            /\ calls' = Append(calls, CurrentSlice)
            /\ pc' = "processing"
            /\ UNCHANGED <<last_exit, finished>>
       ELSE /\ pc' = "done"
            /\ last_exit' = Ended("complete")
            /\ finished' = IF finished.run = 0
                                 THEN [run |-> launches, dir |-> resuming_dir,
                                       created |-> created]
                                 ELSE finished
            /\ UNCHANGED <<local_end_idx, calls>>
    /\ UNCHANGED <<sideVars, scanVars, trainVars, confVars, subparts, resuming_dir, subpartition_data,
                   already_processed_samples, local_start_idx, processed_chunk,
                   launches, created, completed>>

\* lines 158-160: generate_completions_batch returns
TransformReturns ==
    /\ pc = "processing"
    /\ processed_chunk' = generate_completions_batch(CurrentSliceData)
    /\ pc' = "persisting"
    /\ UNCHANGED <<sideVars, scanVars, trainVars, confVars, subparts, resuming_dir, subpartition_data,
                   already_processed_samples, local_start_idx, local_end_idx,
                   histVars>>

\* variant: the exception is caught and the loop goes on with the next chunk
MutTransformCaught ==
    /\ pc = "processing"
    /\ pc' = "loop"
    /\ local_start_idx' = local_end_idx
    /\ last_exit' = Ended("failed")
    /\ UNCHANGED <<sideVars, scanVars, trainVars, confVars, subparts, resuming_dir, subpartition_data,
                   already_processed_samples, local_end_idx,
                   processed_chunk, launches, calls, created, completed, finished>>

\* lines 158-160: generate_completions_batch raises; nothing catches it
TransformRaises ==
    /\ pc = "processing"
    /\ pc' = "failed"
    /\ last_exit' = Ended("failed")
    /\ UNCHANGED <<sideVars, scanVars, trainVars, confVars, subparts, resuming_dir, subpartition_data,
                   already_processed_samples, local_start_idx, local_end_idx,
                   processed_chunk, launches, calls, created, completed, finished>>

\* variant: the outputs are attached in reverse order
MutAugmentedReversed ==
    [i \in 1 .. Len(CurrentSliceData) |->
        [item |-> CurrentSliceData[i],
         ref_completions |-> processed_chunk[Len(CurrentSliceData) - i + 1]]]

\* lines 162-165: current_slice_data.map(lambda _, idx:
\*     {"ref_completions": processed_chunk[idx]}, with_indices=True)
AugmentedSlice ==
    [i \in 1 .. Len(CurrentSliceData) |->
        [item |-> CurrentSliceData[i], ref_completions |-> processed_chunk[i]]]

\* variant: the checkpoint is named by the length of the chunk
MutSavePathRelative == CheckpointName(local_end_idx - local_start_idx)

\* line 166: save_path = resuming_dir / f"checkpoint-{local_end_idx}"
save_path == CheckpointName(local_end_idx)

\* lines 166-167, first part: save_to_disk creates the directory
\* checkpoint-{local_end_idx} under its final name and starts writing into it
SaveBegin ==
    /\ pc = "persisting"
    /\ resuming_dir' = WriteEntry(resuming_dir, save_path,
                                  Entry(TRUE, {}, {}, <<>>, FALSE))
    /\ created' = Append(created, local_end_idx)
    /\ pc' = "saving"
    /\ UNCHANGED <<sideVars, scanVars, trainVars, confVars, subparts, subpartition_data,
                   already_processed_samples, local_start_idx, local_end_idx,
                   processed_chunk, launches, calls, completed, last_exit,
                   finished>>

\* lines 167-172: save_to_disk has written every file; the start index advances
SaveFinish ==
    /\ pc = "saving"
    /\ resuming_dir' = WriteEntry(resuming_dir, save_path,
                                  Entry(TRUE, {"data.arrow", "state.json"}, {},
                                        AugmentedSlice, TRUE))
    /\ completed' = completed + 1
    /\ local_start_idx' = local_end_idx
    /\ pc' = "loop"
    /\ UNCHANGED <<sideVars, scanVars, trainVars, confVars, subparts, subpartition_data,
                   already_processed_samples, local_end_idx, processed_chunk,
                   launches, calls, created, last_exit, finished>>

\* the process is killed (there is no handler: any instant of a run)
Crash ==
    /\ pc \in {"scan", "loop", "processing", "persisting", "saving"}
    /\ pc' = "crashed"
    /\ last_exit' = Ended("crashed")
    /\ UNCHANGED <<sideVars, scanVars, trainVars, confVars, subparts, resuming_dir, subpartition_data,
                   already_processed_samples, local_start_idx, local_end_idx,
                   processed_chunk, launches, calls, created, completed, finished>>

Next ==
    \/ Launch
    \/ Scan
    \/ LoopHead
    \/ TransformReturns
    \/ TransformRaises
    \/ SaveBegin
    \/ SaveFinish
    \/ Crash

Spec == GenInit /\ [][Next]_vars

\* ------- specification: the directory holds a checkpoint before the first run
\* a checkpoint directory as save_to_disk leaves it, with one row
StaleCheckpoint(m) ==
    Entry(TRUE, {"data.arrow", "state.json"}, {},
          <<[item |-> m - 1,
             ref_completions |-> generate_completions_batch(<<m - 1>>)[1]]>>,
          TRUE)

\* one worker over [0, partition_end_idx); the resuming directory holds
\* checkpoint-m, which may lie beyond the length of the sub-range
StaleInit ==
    /\ partition_start_idx = 0
    /\ partition_end_idx \in 0 .. MaxEnd
    /\ num_subpartitions = 1
    /\ subpartition_number = 0
    /\ save_interval \in 1 .. MaxInterval
    /\ subparts = <<>>
    /\ \E m \in 1 .. MaxStale :
          resuming_dir = WriteEntry(InitialDir, CheckpointName(m), StaleCheckpoint(m))
    /\ GenIdle
    /\ ScanIdle
    /\ DevIdle
    /\ WrkIdle
    /\ ShutIdle
    /\ DsIdle
    /\ EvalIdle
    /\ TokIdle
    /\ TrainIdle

SpecStale == StaleInit /\ [][Next]_vars

\* ---------------------- specification: runs that are launched again for ever
\* a launch of the script, at any time after the previous process has ended
Relaunch == StartProcess(Min(launches + 1, MaxLaunches))

\* the global range starts at 0
LiveInit ==
    /\ GenInit
    /\ partition_start_idx = 0

LiveNext ==
    \/ Relaunch
    \/ Scan
    \/ LoopHead
    \/ TransformReturns
    \/ SaveBegin
    \/ SaveFinish
    \/ Crash

\* a process that is not killed takes its next step, the transform returns,
\* and the kills do not for ever hit the same step: a step that is possible
\* again and again is taken in the end
SpecLive ==
    /\ LiveInit
    /\ [][LiveNext]_vars
    /\ WF_vars(Relaunch)
    /\ SF_vars(Scan)
    /\ SF_vars(LoopHead)
    /\ SF_vars(TransformReturns)
    /\ SF_vars(SaveBegin)
    /\ SF_vars(SaveFinish)

\* the same runs on a directory that holds a checkpoint before the first run
SpecStaleLive ==
    /\ StaleInit
    /\ [][LiveNext]_vars
    /\ WF_vars(Relaunch)
    /\ SF_vars(Scan)
    /\ SF_vars(LoopHead)
    /\ SF_vars(TransformReturns)
    /\ SF_vars(SaveBegin)
    /\ SF_vars(SaveFinish)

\* ====================================================== the partition claims
SubRange(k) == Range(subparts[k][1], subparts[k][2])

AllComputed == DOMAIN subparts = 0 .. (num_subpartitions - 1)

\* C1: for range_start <= range_end and worker_count >= 1 the sub-ranges of the
\* worker ids 0 .. worker_count-1 (start_idx >= end_idx being the empty range)
\* are pairwise disjoint and their union is exactly [range_start, range_end).
C1_PartitionCoverage ==
    /\ \A j, k \in DOMAIN subparts : j # k => SubRange(j) \cap SubRange(k) = {}
    /\ \A k \in DOMAIN subparts :
          SubRange(k) \subseteq Range(partition_start_idx, partition_end_idx)
    /\ AllComputed =>
          UNION {SubRange(k) : k \in DOMAIN subparts}
              = Range(partition_start_idx, partition_end_idx)

\* every worker computed; the last worker's start lies beyond its end and the
\* one before it is clipped
C1_Witness ==
    /\ AllComputed
    /\ num_subpartitions = 4
    /\ partition_end_idx - partition_start_idx = 5
    /\ subparts[3][1] > subparts[3][2]
    /\ subparts[2][2] - subparts[2][1] = 1

\* ceil((range_end - range_start) / worker_count)
FullSize == CeilDiv(partition_end_idx - partition_start_idx, num_subpartitions)

\* C24 as stated: every worker other than the final one receives exactly
\* ceil((range_end - range_start) / worker_count) items.
C24_OnlyFinalSmaller ==
    \A k \in DOMAIN subparts :
        k < num_subpartitions - 1 => Cardinality(SubRange(k)) = FullSize

\* C24 amended: worker k receives the items that are left after k full
\* sub-ranges, at most a full one: max(0, min(size, length - k * size)) with
\* size the rounded-up quotient; a worker that receives less than a full
\* sub-range is followed by workers that receive nothing.
C24_SizedByWhatIsLeft ==
    /\ \A k \in DOMAIN subparts :
          Cardinality(SubRange(k)) =
              Max(0, Min(FullSize,
                         (partition_end_idx - partition_start_idx) - k * FullSize))
    /\ \A j, k \in DOMAIN subparts :
          (j < k /\ Cardinality(SubRange(j)) < FullSize) => SubRange(k) = {}

\* five items for four workers: the third worker, which is not the final one,
\* receives one item instead of two, and the final one none
C24_Witness ==
    /\ AllComputed
    /\ num_subpartitions = 4
    /\ partition_start_idx = 0
    /\ partition_end_idx = 5
    /\ Cardinality(SubRange(0)) = 2
    /\ Cardinality(SubRange(1)) = 2
    /\ Cardinality(SubRange(2)) = 1
    /\ SubRange(3) = {}

\* ====================================================== the processor claims
Running == pc \in {"loop", "processing", "persisting", "saving"}

CallsFrom(k) == {i \in DOMAIN calls : calls[i][1] = k}

\* C2: after a crash while the chunk starting at k was being processed, a fresh
\* run starts at local_start_idx = k, hands the chunk starting at k to the
\* transform exactly once, never hands it a slice starting below k and leaves
\* every entry that existed at the crash as it was.
C2_CrashRecovery ==
    (last_exit.exit = "crashed" /\ last_exit.pc = "processing" /\ Running) =>
        LET k == last_exit.start
        IN  /\ already_processed_samples = k
            /\ local_start_idx >= k
            /\ \A i \in DOMAIN calls : calls[i][1] >= k
            /\ (calls = <<>>) => (pc = "loop" /\ local_start_idx = k)
            /\ (calls # <<>>) => Cardinality(CallsFrom(k)) = 1
            /\ \A n \in DOMAIN last_exit.dir :
                  n \in DOMAIN resuming_dir /\ resuming_dir[n] = last_exit.dir[n]

\* the run after a crash at k = 2 has redone the chunk and moved on
C2_Witness ==
    /\ last_exit.exit = "crashed"
    /\ last_exit.pc = "processing"
    /\ last_exit.start = 2
    /\ pc = "loop"
    /\ local_start_idx > 2
    /\ local_start_idx < Len(subpartition_data)

\* C3: whenever no save is in progress (a crash during a save included), every
\* directory the checkpoint scan matches holds the complete augmented slice
\* ending at its offset, and the offset a run resumes from is that of a
\* completely written checkpoint.
C3_ScannerSeesOnlyComplete ==
    /\ (pc # "saving") =>
          \A n \in GenMatched(resuming_dir) :
              /\ resuming_dir[n].complete
              /\ Len(resuming_dir[n].rows) >= 1
              /\ resuming_dir[n].rows[Len(resuming_dir[n].rows)].item
                    = subpartition_data[IntValue(LastSegment(n))]
    /\ (Running /\ already_processed_samples > 0) =>
          resuming_dir[CheckpointName(already_processed_samples)].complete

\* C4: once a run has ended with the partition complete, every later run hands
\* nothing to the transform, creates no checkpoint directory, leaves the
\* directory as it was and does not fail.
C4_ResumeIdempotent ==
    (finished.run > 0 /\ launches > finished.run) =>
        /\ calls = <<>>
        /\ created = finished.created
        /\ resuming_dir = finished.dir
        /\ pc \in {"scan", "done", "crashed"}

\* a later run over a finished partition of several checkpoints has exited
C4_Witness ==
    /\ finished.run > 0
    /\ launches > finished.run
    /\ pc = "done"
    /\ Len(finished.created) >= 2
    /\ last_exit.exit = "complete"

StrictlyIncreasing(s) == \A i, j \in DOMAIN s : i < j => s[i] < s[j]

\* C5: outside a save in progress there is exactly one checkpoint directory per
\* chunk saved to the end; directories are created in strictly increasing order
\* of offset; a chunk is handed to the transform only when the checkpoint of
\* the chunk before it has been saved; a complete partition has its largest
\* offset equal to the partition length.
C5_OneCheckpointPerChunk ==
    /\ (pc # "saving") => Cardinality(GenMatched(resuming_dir)) = completed
    /\ StrictlyIncreasing(created)
    /\ (pc = "processing" /\ local_start_idx > 0) =>
          /\ CheckpointName(local_start_idx) \in DOMAIN resuming_dir
          /\ resuming_dir[CheckpointName(local_start_idx)].complete
    /\ (finished.run > 0) =>
          created[Len(created)] = Len(subpartition_data)

\* c, 2c, ... below L, then L
ExpectedOffsets(L, c) == [i \in 1 .. CeilDiv(L, c) |-> Min(i * c, L)]

\* C6: an uninterrupted first run over a partition of length L >= 1 with chunk
\* size c creates the checkpoints c, 2c, ..., L in that order, every chunk of
\* c items except the last, which has L minus the previous offset.
C6_UninterruptedOffsets ==
    (launches = 1 /\ Len(subpartition_data) >= 1) =>
        LET L == Len(subpartition_data)
            want == ExpectedOffsets(L, save_interval)
        IN  /\ Len(created) <= Len(want)
            /\ \A i \in DOMAIN created : created[i] = want[i]
            /\ \A i \in DOMAIN calls :
                  /\ calls[i][2] = want[i]
                  /\ calls[i][1] = (i - 1) * save_interval
                  /\ (i < Len(want)) => calls[i][2] - calls[i][1] = save_interval
            /\ (pc = "done") =>
                  /\ created = want
                  /\ {n \in DOMAIN resuming_dir : StartsWithCheckpoint(n)}
                        = {CheckpointName(want[i]) : i \in DOMAIN want}

\* length 5, chunk size 2: checkpoints 2, 4, 5
C6_Witness ==
    /\ launches = 1
    /\ pc = "done"
    /\ Len(subpartition_data) = 5
    /\ save_interval = 2
    /\ created = <<2, 4, 5>>
    /\ calls = <<(<<0, 2>>), (<<2, 4>>), (<<4, 5>>)>>

\* C11: when the transform raises on the chunk starting at k the run halts
\* with the error after that single call, no checkpoint for the chunk exists,
\* the directory is as it was, and the next run starts at k and hands the
\* chunk starting at k to the transform first.
C11_TransformFailureHalts ==
    (last_exit.exit = "failed" /\ last_exit.pc = "processing") =>
        LET k == last_exit.start
        IN  /\ (launches = last_exit.run) =>
                  /\ pc = "failed"
                  /\ local_start_idx = k
                  /\ resuming_dir = last_exit.dir
                  /\ CheckpointName(local_end_idx) \notin DOMAIN resuming_dir
                  /\ GenScan(resuming_dir).value = k
                  /\ Cardinality(CallsFrom(k)) = 1
                  /\ calls[Len(calls)][1] = k
            /\ (launches > last_exit.run /\ Running) =>
                  /\ already_processed_samples = k
                  /\ (calls = <<>>) => (pc = "loop" /\ local_start_idx = k)
                  /\ (calls # <<>>) => calls[1][1] = k
                  /\ \A n \in DOMAIN last_exit.dir :
                        n \in DOMAIN resuming_dir
                        /\ resuming_dir[n] = last_exit.dir[n]

\* the run after a failure at k = 2 is processing the chunk starting at 2
C11_Witness ==
    /\ last_exit.exit = "failed"
    /\ last_exit.pc = "processing"
    /\ last_exit.start = 2
    /\ launches > last_exit.run
    /\ pc = "processing"
    /\ local_start_idx = 2

OwnSubRange ==
    compute_subpartition_start_end_indices(partition_start_idx, partition_end_idx,
                                           subpartition_number, num_subpartitions)

\* C12: a worker whose sub-range has start_idx >= end_idx exits successfully
\* at every launch: it selects no rows, never scans, hands nothing to the
\* transform and creates no checkpoint.
C12_EmptySubpartitionSkips ==
    (OwnSubRange[1] >= OwnSubRange[2]) =>
        /\ pc \in {"off", "done"}
        /\ subpartition_data = <<>>
        /\ calls = <<>>
        /\ created = <<>>
        /\ resuming_dir = InitialDir
        /\ (launches > 0) => last_exit.exit = "empty"

\* the second worker of a one-item range has exited twice
C12_Witness ==
    /\ partition_start_idx = 0
    /\ partition_end_idx = 1
    /\ num_subpartitions = 2
    /\ subpartition_number = 1
    /\ OwnSubRange = <<1, 1>>
    /\ launches = 2
    /\ pc = "done"

\* C13: a job configured with partition_start_idx > partition_end_idx fails
\* with a configuration error; it never terminates successfully.
C13_InvalidBoundsFail ==
    (partition_start_idx > partition_end_idx) => pc \in {"off", "failed"}

\* C20: every checkpoint-<e> whose save has returned holds the partition's
\* items s .. e-1 in their order, s being 0 or the offset of another
\* checkpoint; the row at position i carries the i-th value the transform
\* returns for that slice; e counts from the start of the partition.
C20_CheckpointContent ==
    \A n \in GenMatched(resuming_dir) :
        resuming_dir[n].complete =>
            LET e == IntValue(LastSegment(n))
                rows == resuming_dir[n].rows
                s == e - Len(rows)
                out == generate_completions_batch(
                           SubSeq(subpartition_data, s + 1, e))
            IN  /\ Len(rows) >= 1
                /\ s >= 0
                /\ e <= Len(subpartition_data)
                /\ s = 0 \/ CheckpointName(s) \in DOMAIN resuming_dir
                /\ \A i \in 1 .. Len(rows) :
                      /\ rows[i].item = subpartition_data[s + i]
                      /\ rows[i].ref_completions = out[i]
                      /\ rows[i].ref_completions.user = rows[i].item

\* the second checkpoint of a partition starting at dataset index 1
C20_Witness ==
    /\ partition_start_idx = 1
    /\ CheckpointName(2) \in DOMAIN resuming_dir
    /\ CheckpointName(4) \in DOMAIN resuming_dir
    /\ resuming_dir[CheckpointName(4)].complete
    /\ Len(resuming_dir[CheckpointName(4)].rows) = 2
    /\ resuming_dir[CheckpointName(4)].rows[1].item = 3
    /\ resuming_dir[CheckpointName(4)].rows[2].item = 4

\* the offsets of the checkpoint directories of d
Offsets(d) == {IntValue(LastSegment(n)) : n \in GenMatched(d)}

\* C21: over runs, crashes and restarts no entry of the resuming directory is
\* ever deleted, a checkpoint directory is written only by the save that
\* created it, every new entry is a checkpoint-<e> with e above every offset
\* already in the directory, and the rows selected from the source dataset
\* stay what they are.
C21_CheckpointsImmutable ==
    [][/\ DOMAIN resuming_dir \subseteq DOMAIN resuming_dir'
       /\ \A n \in DOMAIN resuming_dir :
             resuming_dir'[n] # resuming_dir[n] =>
                 /\ pc = "saving"
                 /\ n = CheckpointName(local_end_idx)
                 /\ ~resuming_dir[n].complete
                 /\ created[Len(created)] = local_end_idx
       /\ \A n \in DOMAIN resuming_dir' \ DOMAIN resuming_dir :
             /\ n = CheckpointName(local_end_idx)
             /\ \A e \in Offsets(resuming_dir) : local_end_idx > e
       /\ (subpartition_data # <<>> /\ subpartition_data' # <<>>) =>
             subpartition_data' = subpartition_data]_vars

\* a save was interrupted at checkpoint-1; the next launch has saved
\* checkpoint-2 beside it
C21_Witness ==
    /\ launches = 2
    /\ CheckpointName(1) \in DOMAIN resuming_dir
    /\ ~resuming_dir[CheckpointName(1)].complete
    /\ CheckpointName(2) \in DOMAIN resuming_dir
    /\ resuming_dir[CheckpointName(2)].complete
    /\ created = <<1, 2>>

\* the length of the worker's own sub-range
OwnLength == OwnSubRange[2] - OwnSubRange[1]

\* how far the process has got: the scanned offset when it returned at line
\* 140, local_start_idx once the loop is entered
Progress ==
    IF last_exit.run = launches /\ last_exit.pc = "scan"
    THEN already_processed_samples
    ELSE local_start_idx

\* C22: for a non-empty sub-range, a process that enters the loop and is not
\* killed gets to the end of main, and a process at the end of main has
\* processed the whole length; with launches repeated after the kills, a
\* checkpoint whose offset is the length is reached.
C22_Terminates ==
    /\ [](pc = "loop" => <>(pc \in {"done", "crashed"}))
    /\ []((pc = "done" /\ OwnLength > 0) => Progress = OwnLength)
    /\ (OwnLength > 0) => <>(OwnLength \in Offsets(resuming_dir))

\* a sub-range of three items in chunks of two, done in one launch: the
\* process is at the end of main with checkpoint-2 and checkpoint-3 saved
C22_Witness ==
    /\ OwnLength = 3
    /\ save_interval = 2
    /\ launches = 1
    /\ pc = "done"
    /\ local_start_idx = 3
    /\ created = <<2, 3>>
    /\ completed = 2

\* the highest offset of d below k, 0 when there is none
PreviousOffset(d, k) ==
    IF {e \in Offsets(d) : e < k} = {} THEN 0
    ELSE SetMax({e \in Offsets(d) : e < k})

\* C23: in every state of the resuming directory with no save under way, the
\* checkpoint of offset k holds the rows of the slice from the previous offset
\* (0 for the first) to k, so that the checkpoints up to k hold every item of
\* [0, k) exactly once.
C23_CheckpointsTile ==
    (pc # "saving") =>
        \A k \in Offsets(resuming_dir) :
            LET from == PreviousOffset(resuming_dir, k)
                rows == resuming_dir[CheckpointName(k)].rows
            IN  /\ Len(rows) = k - from
                /\ \A i \in 1 .. Len(rows) :
                      rows[i].item = subpartition_data[from + i]

\* the slices handed to the transform in the current run: non-empty, at most
\* save_interval long, within the sub-range, only the last one short
SlicesWellFormed ==
    \A i \in DOMAIN calls :
        /\ 0 <= calls[i][1]
        /\ calls[i][1] < calls[i][2]
        /\ calls[i][2] <= Len(subpartition_data)
        /\ calls[i][2] - calls[i][1] <= save_interval
        /\ (calls[i][2] - calls[i][1] < save_interval) =>
              (i = Len(calls) /\ calls[i][2] = Len(subpartition_data))

\* C25 as stated: the slices are well formed, and at every loop head
\* 0 <= local_start_idx <= partition_length.
C25_LoopHeadWithinLength ==
    /\ SlicesWellFormed
    /\ (pc = "loop") =>
          (0 <= local_start_idx /\ local_start_idx <= Len(subpartition_data))

\* C25 amended: the slices are well formed; at the loop head local_start_idx
\* is at least the scanned offset and at most the larger of the scanned
\* offset and the partition length, so it is within the length when the
\* scanned offset is.
C25_LoopHeadWithinScanned ==
    /\ SlicesWellFormed
    /\ (pc = "loop") =>
          /\ 0 <= already_processed_samples
          /\ already_processed_samples <= local_start_idx
          /\ local_start_idx <= Max(already_processed_samples, Len(subpartition_data))
          /\ (already_processed_samples <= Len(subpartition_data)) =>
                local_start_idx <= Len(subpartition_data)

\* five items in chunks of three after checkpoint-1: the slices [1, 4) and
\* [4, 5) went to the transform, the last one short
C25_Witness ==
    /\ Len(subpartition_data) = 5
    /\ save_interval = 3
    /\ already_processed_samples = 1
    /\ calls = <<(<<1, 4>>), (<<4, 5>>)>>
    /\ pc = "loop"
    /\ local_start_idx = 5

\* the scan of the current run gave an offset beyond the partition length
OffsetBeyondLength == already_processed_samples > Len(subpartition_data)

\* C31: when the scanned checkpoint offset is greater than the partition
\* length, the run hands no slice to the transform, creates no checkpoint and
\* leaves the directory as it is, and a process that is not killed for ever
\* gets to the end of main, where it ends normally.
C31_OffsetBeyondLengthNoWork ==
    /\ [](OffsetBeyondLength =>
            /\ calls = <<>>
            /\ created = <<>>
            /\ pc \in {"loop", "done", "crashed"}
            /\ (pc = "done") =>
                  /\ last_exit.exit = "complete"
                  /\ last_exit.run = launches)
    /\ [][OffsetBeyondLength => resuming_dir' = resuming_dir]_vars
    /\ []((pc = "loop" /\ OffsetBeyondLength) => <>(pc = "done"))

\* checkpoint-7 in the directory of a partition of five items: the first run
\* is at the end of main without a call of the transform
C31_Witness ==
    /\ Len(subpartition_data) = 5
    /\ already_processed_samples = 7
    /\ launches = 1
    /\ pc = "done"
    /\ last_exit.exit = "complete"
    /\ last_exit.run = 1
    /\ calls = <<>>
    /\ DOMAIN resuming_dir = DOMAIN InitialDir \cup {CheckpointName(7)}

\* ================================== the scans over arbitrary directories
\* every directory over a set of names, each name absent or one of its options
RECURSIVE DirsOver(_, _)
DirsOver(names, options) ==
    IF names = {} THEN {<<>>}
    ELSE LET n == CHOOSE x \in names : TRUE
             rest == DirsOver(names \ {n}, options)
         IN  rest \cup {WriteEntry(d, n, e) : d \in rest, e \in options[n]}

TmpName == <<"checkpoint", "-", "t", "m", "p">>      \* checkpoint-tmp
BareName == <<"checkpoint", "-">>                    \* checkpoint-
InfixName == <<"checkpoint", "-", "x", "-", "7">>    \* checkpoint-x-7
OtherName == <<"o">>                                 \* a directory of another name

WellFormedNames == {CheckpointName(n) : n \in (1 .. MaxScanN) \cup {10}}
MalformedNames == {TmpName, BareName, InfixName}

\* a checkpoint-<n> name is a plain file or a directory with any of the two
\* companion files; a malformed name is a directory with none or both; the
\* other directory holds a nested checkpoint-9
ScanNames == WellFormedNames \cup MalformedNames \cup {OtherName}

ScanOptions ==
    [n \in ScanNames |->
        IF n \in WellFormedNames
        THEN {PlainFile} \cup {PlainDir(f, {}) : f \in SUBSET CompanionFiles}
        ELSE IF n \in MalformedNames
        THEN {PlainDir({}, {}), PlainDir(CompanionFiles, {})}
        ELSE {PlainDir({}, {CheckpointName(9)})}]

ScanInit ==
    /\ resuming_dir \in DirsOver(ScanNames, ScanOptions)
    /\ partition_start_idx = 0
    /\ partition_end_idx = 0
    /\ num_subpartitions = 1
    /\ subpartition_number = 0
    /\ save_interval = 1
    /\ subparts = <<>>
    /\ GenIdle
    /\ ScanIdle
    /\ DevIdle
    /\ WrkIdle
    /\ ShutIdle
    /\ DsIdle
    /\ EvalIdle
    /\ TokIdle
    /\ TrainIdle

\* lines 128-135 of the generation script on this directory
RunGenScan ==
    /\ scan_gen = NotRun
    /\ scan_gen' = GenScan(resuming_dir)
    /\ UNCHANGED <<sideVars, confVars, subparts, resuming_dir, genVars, histVars,
                   scan_train, trainVars>>

\* lines 160-168 of the training driver on this directory
RunTrainScan ==
    /\ scan_train = NotRun
    /\ scan_train' = TrainScan(resuming_dir)
    /\ UNCHANGED <<sideVars, confVars, subparts, resuming_dir, genVars, histVars,
                   scan_gen, trainVars>>

ScanNext == RunGenScan \/ RunTrainScan

SpecScan == ScanInit /\ [][ScanNext]_vars

\* the directories of d whose name is exactly checkpoint-<integer>
PatternDirs(d) == {n \in DOMAIN d : d[n].is_dir /\ IsCheckpointPattern(n)}

PatternNumber(n) == IntValue(SubSeq(n, 3, Len(n)))

\* the largest <integer> over a set of checkpoint-<integer> names, 0 for none
MaxNumber(S) == SetMax({0} \cup {PatternNumber(n) : n \in S})

\* C7: whenever the generation script's scan returns, it returns the maximum
\* <integer> over the immediate subdirectories named checkpoint-<integer>, and
\* 0 when there is none; plain files and nested entries do not contribute.
C7_ScanReturnsMaxOfPattern ==
    (scan_gen # NotRun /\ ~scan_gen.raised) =>
        scan_gen.value = MaxNumber(PatternDirs(resuming_dir))

\* d without the directories whose name is not of the form checkpoint-<integer>
OnlyPattern(d) ==
    [n \in {m \in DOMAIN d : ~d[m].is_dir \/ IsCheckpointPattern(m)} |-> d[n]]

\* C8: for every content of the directory both scans complete without error
\* and give what they give when every directory whose name is not of the form
\* checkpoint-<integer> is removed.
C8_ScansIgnoreNonPattern ==
    /\ (scan_gen # NotRun) =>
          /\ ~scan_gen.raised
          /\ scan_gen = GenScan(OnlyPattern(resuming_dir))
    /\ (scan_train # NotRun) =>
          /\ ~scan_train.raised
          /\ scan_train = TrainScan(OnlyPattern(resuming_dir))

\* ========================================== tokenizer setup and validation
BosPlaceholder == "{{ bos_token }}"

\* tokenization.py lines 14-393: the templates by name (two of the keys)
CHAT_TEMPLATES ==
    [n \in {"tulu", "zephyr"} |-> <<"{% for message in messages %}", n>>]

\* s.startswith(prefix) on strings held as sequences of pieces
StartsWith(str, prefix) ==
    /\ Len(str) >= Len(prefix)
    /\ SubSeq(str, 1, Len(prefix)) = prefix

Returned(t) == [outcome |-> "returned", error |-> "", tokenizer |-> t]
Raised(kind, message) == [outcome |-> kind, error |-> message, tokenizer |-> NoTokenizer]

\* lines 446-457: add_bos_to_chat_template; None.startswith is an AttributeError
get_tokenizer_add_bos(cfg, t) ==
    IF ~cfg.add_bos_to_chat_template THEN Returned(t)
    ELSE IF t.chat_template = NoneStr
    THEN Raised("AttributeError", "'NoneType' object has no attribute 'startswith'")
    ELSE IF \/ StartsWith(t.chat_template, <<BosPlaceholder>>)
            \/ /\ bos_token(t) # NoneStr
               /\ StartsWith(t.chat_template, bos_token(t))
    THEN Raised("ValueError", "the chat template already has a bos_token at the beginning")
    ELSE Returned([t EXCEPT !.chat_template = <<BosPlaceholder>> \o @])

\* lines 434-444: the template by name when the name is a key of CHAT_TEMPLATES,
\* otherwise the chat template of the model's own tokenizer, loaded again
get_tokenizer_chat_template(cfg, ld, t) ==
    IF cfg.chat_template_name \in DOMAIN CHAT_TEMPLATES
    THEN get_tokenizer_add_bos(
             cfg, [t EXCEPT !.chat_template = CHAT_TEMPLATES[cfg.chat_template_name]])
    ELSE IF ld.reload_raises
    THEN Raised("ValueError", "Could not find chat template for the model")
    ELSE get_tokenizer_add_bos(
             cfg, [t EXCEPT !.chat_template = ld.tokenizer.chat_template])

\* lines 416-421: the overrides of the special tokens
ApplyOverrides(cfg, t) ==
    [t EXCEPT !.pad_token_id = IF cfg.model_pad_token_id # NoneId
                               THEN cfg.model_pad_token_id ELSE @,
              !.eos_token_id = IF cfg.model_eos_token_id # NoneId
                               THEN cfg.model_eos_token_id ELSE @]

\* variant: the checks of lines 424-429 run on the tokenizer as loaded, the
\* overrides are applied after them
MutValidateBeforeOverrides(cfg, ld) ==
    IF pad_token(ld.tokenizer) = NoneStr
    THEN Raised("ValueError", "Tokenizer must have a pad token.")
    ELSE IF pad_token(ld.tokenizer) = eos_token(ld.tokenizer)
    THEN Raised("ValueError", "Tokenizer pad token is the same as the eos token.")
    ELSE get_tokenizer_chat_template(cfg, ld, ApplyOverrides(cfg, ld.tokenizer))

\* lines 408-457
get_tokenizer(cfg, ld) ==
    LET t == ApplyOverrides(cfg, ld.tokenizer)
    IN  IF pad_token(t) = NoneStr
        THEN Raised("ValueError", "Tokenizer must have a pad token.")
        ELSE IF pad_token(t) = eos_token(t)
        THEN Raised("ValueError", "Tokenizer pad token is the same as the eos token.")
        ELSE get_tokenizer_chat_template(cfg, ld, t)

OptionalIds == {NoneId} \cup (0 .. MaxTokenId)

\* the chat templates a model's tokenizer may come with
ModelTemplates(bos) ==
    {NoneStr, <<"model default">>, <<BosPlaceholder, "model default">>}
        \cup (IF bos = NoneId THEN {}
              ELSE {convert_ids_to_tokens(bos) \o <<"model default">>})

LoadedTokenizers ==
    UNION {{[tokenizer |-> Tokenizer(pad, eos, bos, template), reload_raises |-> r] :
               pad \in OptionalIds, eos \in OptionalIds,
               template \in ModelTemplates(bos), r \in BOOLEAN} :
           bos \in {NoneId, 0}}

\* chat_template_name: unset, two keys of CHAT_TEMPLATES, one name that is no key
TemplateNames == {NoneName, "tulu", "zephyr", "tulu_v2"}

TokenizerConfigs ==
    [chat_template_name : TemplateNames, add_bos_to_chat_template : BOOLEAN,
     model_pad_token_id : OptionalIds, model_eos_token_id : OptionalIds]

TokInit ==
    /\ loaded \in LoadedTokenizers
    /\ tc \in TokenizerConfigs
    /\ tokenizer_args_pad_token_id \in OptionalIds
    /\ get_tokenizer_result = NotCalled
    /\ tokenizer = NoTokenizer
    /\ tpc = "launch"
    /\ last_checkpoint_number = 0
    /\ eval_on_start = FALSE
    /\ resume_from_checkpoint = FALSE
    /\ trainer_checkpoint = -1
    /\ partition_start_idx = 0
    /\ partition_end_idx = 0
    /\ num_subpartitions = 1
    /\ subpartition_number = 0
    /\ save_interval = 1
    /\ subparts = <<>>
    /\ resuming_dir = <<>>
    /\ GenIdle
    /\ ScanIdle
    /\ DevIdle
    /\ WrkIdle
    /\ ShutIdle
    /\ DsIdle
    /\ eval_strategy = "steps"
    /\ train_launches = 1
    /\ decisions = <<>>
    /\ produced = 0

\* a call get_tokenizer(tc)
GetTokenizer ==
    /\ get_tokenizer_result = NotCalled
    /\ get_tokenizer_result' = get_tokenizer(tc, loaded)
    /\ UNCHANGED <<coreVars, devVars, wrkVars, evalVars, shutVars, dsVars, loaded, tc,
                   tokenizer_args_pad_token_id, tokenizer>>

\* the tokenizer of the driver after lines 84-92: a missing pad token is
\* replaced by config.tokenizer_args.pad_token_id
DriverTokenizer(ld, pad_token_id) ==
    IF pad_token(ld.tokenizer) = NoneStr
    THEN [ld.tokenizer EXCEPT !.pad_token_id = pad_token_id]
    ELSE ld.tokenizer

\* train_preference.py lines 84-96: the tokenizer setup of the training driver
TokenizerSetup ==
    /\ tpc = "launch"
    /\ tokenizer' = DriverTokenizer(loaded, tokenizer_args_pad_token_id)
    /\ tpc' = IF pad_token(tokenizer') = eos_token(tokenizer')
              THEN "tokenizer_error"
              ELSE "start"
    /\ UNCHANGED <<confVars, subparts, resuming_dir, genVars, histVars, scanVars,
                   devVars, wrkVars, evalVars, shutVars, dsVars, loaded, tc,
                   get_tokenizer_result,
                   tokenizer_args_pad_token_id, last_checkpoint_number, eval_on_start,
                   resume_from_checkpoint, trainer_checkpoint>>

TokNext ==
    \/ GetTokenizer
    \/ TokenizerSetup

SpecTokenizer == TokInit /\ [][TokNext]_vars

\* C14: get_tokenizer called with a chat_template_name that is set and is not
\* a key of CHAT_TEMPLATES does not return a tokenizer: it fails.
C14_UnknownTemplateNameFails ==
    (/\ get_tokenizer_result # NotCalled
     /\ tc.chat_template_name # NoneName
     /\ tc.chat_template_name \notin DOMAIN CHAT_TEMPLATES) =>
        get_tokenizer_result.outcome = "ValueError"

\* the pad and eos tokens get_tokenizer works with once the overrides are in
OverriddenPad == pad_token(ApplyOverrides(tc, loaded.tokenizer))
OverriddenEos == eos_token(ApplyOverrides(tc, loaded.tokenizer))

\* C16: get_tokenizer validates the tokens with the overrides applied: it
\* raises ValueError when that pad token is missing or equals the eos token,
\* and a tokenizer it returns carries the overridden tokens, with a pad token
\* that is set and differs from the eos token. The training driver raises its
\* ValueError exactly when the pad token equals the eos token, and goes on to
\* the dataset setup only with the two different.
C16_PadTokenValidated ==
    /\ (get_tokenizer_result # NotCalled) =>
          /\ (OverriddenPad = NoneStr \/ OverriddenPad = OverriddenEos) =>
                /\ get_tokenizer_result.outcome = "ValueError"
                /\ get_tokenizer_result.error \in
                      {"Tokenizer must have a pad token.",
                       "Tokenizer pad token is the same as the eos token."}
          /\ (get_tokenizer_result.outcome = "returned") =>
                /\ pad_token(get_tokenizer_result.tokenizer) = OverriddenPad
                /\ eos_token(get_tokenizer_result.tokenizer) = OverriddenEos
                /\ OverriddenPad # NoneStr
                /\ OverriddenPad # OverriddenEos
    /\ (tpc # "launch") =>
          /\ (tpc = "tokenizer_error") <=> (pad_token(tokenizer) = eos_token(tokenizer))
          /\ (tpc = "start") => pad_token(tokenizer) # eos_token(tokenizer)

\* the model's pad token is its eos token: the driver has raised; the pad
\* override of the TokenizerConfig makes get_tokenizer return a tokenizer with
\* pad token 0 and eos token 1
C16_Witness ==
    /\ loaded.tokenizer.pad_token_id = 1
    /\ loaded.tokenizer.eos_token_id = 1
    /\ tc.model_pad_token_id = 0
    /\ tc.model_eos_token_id = NoneId
    /\ get_tokenizer_result.outcome = "returned"
    /\ get_tokenizer_result.tokenizer.pad_token_id = 0
    /\ get_tokenizer_result.tokenizer.eos_token_id = 1
    /\ tpc = "tokenizer_error"

\* the chat template get_tokenizer selects at lines 434-444
SelectedTemplate ==
    IF tc.chat_template_name \in DOMAIN CHAT_TEMPLATES
    THEN CHAT_TEMPLATES[tc.chat_template_name]
    ELSE loaded.tokenizer.chat_template

\* the markers of a bos token at the beginning of a template of tokenizer t
BosMarkers(t) ==
    {<<BosPlaceholder>>} \cup (IF bos_token(t) # NoneStr THEN {bos_token(t)} ELSE {})

StartsWithBos(t, template) ==
    \E marker \in BosMarkers(t) : StartsWith(template, marker)

StartsWithTwoBos(t, template) ==
    \E first, second \in BosMarkers(t) : StartsWith(template, first \o second)

\* the call got past the checks of the special tokens and the selection of the
\* template
TemplateSelected ==
    /\ get_tokenizer_result # NotCalled
    /\ OverriddenPad # NoneStr
    /\ OverriddenPad # OverriddenEos
    /\ tc.chat_template_name \in DOMAIN CHAT_TEMPLATES \/ ~loaded.reload_raises

\* C30: with add_bos_to_chat_template set, get_tokenizer raises ValueError
\* when the selected template begins with "{{ bos_token }}" or with the
\* tokenizer's bos token, and otherwise returns "{{ bos_token }}" followed by
\* the selected template; with it unset the selected template is returned
\* unchanged; a returned template never starts with two bos markers.
C30_BosAddedOnce ==
    TemplateSelected =>
        /\ IF ~tc.add_bos_to_chat_template
           THEN /\ get_tokenizer_result.outcome = "returned"
                /\ get_tokenizer_result.tokenizer.chat_template = SelectedTemplate
           ELSE IF StartsWithBos(loaded.tokenizer, SelectedTemplate)
           THEN get_tokenizer_result.outcome = "ValueError"
           ELSE /\ get_tokenizer_result.outcome = "returned"
                /\ get_tokenizer_result.tokenizer.chat_template =
                      <<BosPlaceholder>> \o SelectedTemplate
        /\ (get_tokenizer_result.outcome = "returned") =>
              ~StartsWithTwoBos(get_tokenizer_result.tokenizer,
                                get_tokenizer_result.tokenizer.chat_template)

\* =================================== the training driver, train_preference.py
\* f"eval_{n}_results.json"
EvalName(n) == <<"eval", "_">> \o Str(n) \o <<"_", "results.json">>

TrainCheckpointNames == {CheckpointName(n) : n \in 1 .. MaxScanN}
TrainMalformedNames == {TmpName, InfixName}
TrainEvalNames == {EvalName(n) : n \in 1 .. MaxScanN}
TrainNames == TrainCheckpointNames \cup TrainMalformedNames \cup TrainEvalNames

TrainOptions ==
    [n \in TrainNames |->
        IF n \in TrainCheckpointNames
        THEN {PlainFile} \cup {PlainDir(f, {}) : f \in SUBSET CompanionFiles}
        ELSE IF n \in TrainMalformedNames
        THEN {PlainDir(CompanionFiles, {})}
        ELSE {PlainFile}]

\* transformers' get_last_checkpoint(output_dir), which Trainer.train calls
\* for resume_from_checkpoint=True: the highest-numbered directory whose name
\* matches ^checkpoint-(\d+)$, whatever it contains; -1 stands for None
get_last_checkpoint(d) ==
    IF PatternDirs(d) = {} THEN -1
    ELSE SetMax({PatternNumber(n) : n \in PatternDirs(d)})

\* ------------------------------------------- dataset setup, lines 100 to 153
\* the columns of the "preference with implicit prompt" format
PreferenceColumns == {"chosen", "rejected"}

\* lines 148-153: the columns to drop
ExtraColumns == {"prompt", "completion", "messages", "label", "ref_completions"}

\* a loaded DatasetDict with the columns of its train and test splits
DatasetDictOf(train, test) ==
    [kind |-> "DatasetDict",
     splits |-> [n \in {"train", "test"} |-> IF n = "train" THEN train ELSE test]]

\* lines 103-120: the DatasetDict with the splits "train" and, when a test
\* split is configured, "eval"; a single Dataset becomes the split "train"
to_dataset_dict(raw, test_split) ==
    IF raw.kind = "DatasetDict" /\ test_split # NoneName
    THEN [n \in {"train", "eval"} |->
             IF n = "train" THEN raw.splits["train"] ELSE raw.splits[test_split]]
    ELSE [n \in {"train"} |-> raw.splits["train"]]

\* the value split_name keeps after the loop of line 121: the last key
last_split_name(d) == IF "eval" \in DOMAIN d THEN "eval" ELSE "train"

\* lines 100-153; the subsampling, sorting and shuffling keep the columns
DatasetSetup ==
    /\ tpc = "start"
    /\ LET d == to_dataset_dict(raw_ds, dataset_test_split)
       IN  ds' = [d EXCEPT ![last_split_name(d)] = @ \ ExtraColumns]
    /\ tpc' = "dataset"
    /\ UNCHANGED <<confVars, subparts, resuming_dir, genVars, histVars, scanVars,
                   devVars, wrkVars, tokVars, evalVars, shutVars, raw_ds,
                   dataset_test_split, last_checkpoint_number, eval_on_start,
                   resume_from_checkpoint, trainer_checkpoint>>

\* the tokenizers the driver is run with: with and without pad and eos token,
\* the two equal and different
DriverTokenizers ==
    {ld \in LoadedTokenizers :
        /\ ld.tokenizer.pad_token_id \in {NoneId, 0, MaxTokenId}
        /\ ld.tokenizer.eos_token_id \in {NoneId, MaxTokenId}
        /\ ld.tokenizer.bos_token_id = NoneId
        /\ ld.tokenizer.chat_template = <<"model default">>
        /\ ~ld.reload_raises}

TrainInit ==
    /\ resuming_dir \in DirsOver(TrainNames, TrainOptions)
    /\ loaded \in DriverTokenizers
    /\ tokenizer_args_pad_token_id \in {NoneId, MaxTokenId}
    /\ tc = [chat_template_name |-> NoneName, add_bos_to_chat_template |-> FALSE,
             model_pad_token_id |-> NoneId, model_eos_token_id |-> NoneId]
    /\ get_tokenizer_result = NotCalled
    /\ tokenizer = NoTokenizer
    /\ tpc = "launch"
    /\ last_checkpoint_number = 0
    /\ eval_on_start \in BOOLEAN
    /\ resume_from_checkpoint = FALSE
    /\ trainer_checkpoint = -1
    /\ partition_start_idx = 0
    /\ partition_end_idx = 0
    /\ num_subpartitions = 1
    /\ subpartition_number = 0
    /\ save_interval = 1
    /\ subparts = <<>>
    /\ GenIdle
    /\ ScanIdle
    /\ DevIdle
    /\ WrkIdle
    /\ ShutIdle
    /\ raw_ds = DatasetDictOf(PreferenceColumns, PreferenceColumns)
    /\ dataset_test_split = "test"
    /\ ds = <<>>
    /\ eval_strategy = "steps"
    /\ train_launches = 1
    /\ decisions = <<>>
    /\ produced = 0

\* lines 157-168: find the last checkpoint
FindLastCheckpoint ==
    /\ tpc = "dataset"
    /\ LET r == TrainScan(resuming_dir)
       IN  IF r.raised
           THEN /\ tpc' = "failed"
                /\ UNCHANGED last_checkpoint_number
           ELSE /\ tpc' = "scanned"
                /\ last_checkpoint_number' = r.value
    /\ UNCHANGED <<sideVars, confVars, subparts, resuming_dir, genVars, histVars, scanVars,
                   eval_on_start, resume_from_checkpoint, trainer_checkpoint>>

\* lines 170-186: eval_on_start is switched off when the evaluation of the
\* last checkpoint exists; the trainer is built (ds["eval"] is a KeyError
\* when there is no eval split and eval_strategy is not "no")
BuildTrainer ==
    /\ tpc = "scanned"
    /\ eval_on_start' =
          IF /\ last_checkpoint_number > 0
             /\ EvalName(last_checkpoint_number) \in DOMAIN resuming_dir
          THEN FALSE
          ELSE eval_on_start
    /\ tpc' = IF eval_strategy # "no" /\ "eval" \notin DOMAIN ds
              THEN "failed"
              ELSE "built"
    /\ UNCHANGED <<sideVars, confVars, subparts, resuming_dir, genVars, histVars, scanVars,
                   last_checkpoint_number, resume_from_checkpoint,
                   trainer_checkpoint>>

\* line 205: trainer.train(resume_from_checkpoint=last_checkpoint_number > 0);
\* the trainer is handed a boolean and finds the checkpoint itself; it raises
\* when told to resume and no checkpoint-<integer> directory exists
TrainerTrain ==
    /\ tpc = "built"
    /\ resume_from_checkpoint' = (last_checkpoint_number > 0)
    /\ IF last_checkpoint_number > 0
       THEN IF get_last_checkpoint(resuming_dir) = -1
            THEN /\ tpc' = "failed"
                 /\ UNCHANGED trainer_checkpoint
            ELSE /\ tpc' = "training"
                 /\ trainer_checkpoint' = get_last_checkpoint(resuming_dir)
       ELSE /\ tpc' = "training"
            /\ trainer_checkpoint' = 0
    /\ UNCHANGED <<sideVars, confVars, subparts, resuming_dir, genVars, histVars, scanVars,
                   last_checkpoint_number, eval_on_start>>

TrainNext ==
    \/ TokenizerSetup
    \/ DatasetSetup
    \/ FindLastCheckpoint
    \/ BuildTrainer
    \/ TrainerTrain

SpecTrain == TrainInit /\ [][TrainNext]_vars

\* the directories named checkpoint-<n> that hold both companion files
ValidDirs(d) == {n \in PatternDirs(d) : CompanionFiles \subseteq d[n].files}

\* C9: once the scan is over, last_checkpoint_number is the maximum n over the
\* directories checkpoint-<n> holding both scheduler.pt and trainer_state.json,
\* and 0 when there is none, whatever other checkpoint directories exist.
C9_LastCheckpointIsMaxValid ==
    (tpc \in {"scanned", "built", "training"}) =>
        last_checkpoint_number = MaxNumber(ValidDirs(resuming_dir))

\* C10: in a directory whose checkpoint directories are all named
\* checkpoint-<n>, the trainer resumes from the highest-numbered one that holds
\* both companion files, and from step zero when none does.
C10_ResumesFromHighestValid ==
    (tpc = "training" /\
     \A n \in GenMatched(resuming_dir) : IsCheckpointPattern(n)) =>
        trainer_checkpoint = MaxNumber(ValidDirs(resuming_dir))

\* C27: the driver asks the trainer to resume exactly when the output
\* directory holds a checkpoint-<n> directory with both companion files, and
\* starts a fresh training otherwise.
C27_ResumeIffValidCheckpoint ==
    /\ (tpc = "training") =>
          (resume_from_checkpoint <=> ValidDirs(resuming_dir) # {})
    /\ resume_from_checkpoint => ValidDirs(resuming_dir) # {}

\* C28 as a step property: eval_on_start changes only by being set to FALSE,
\* with a valid last checkpoint n > 0 whose eval_<n>_results.json exists; with
\* no valid checkpoint, or with the marker of n missing, it keeps its value.
C28_EvalOnStartFrame ==
    [][(tpc = "scanned") =>
          LET n == MaxNumber(ValidDirs(resuming_dir))
          IN  IF n > 0 /\ EvalName(n) \in DOMAIN resuming_dir
              THEN eval_on_start' = FALSE
              ELSE eval_on_start' = eval_on_start]_vars

\* ---------------------------- specification: the setup over loaded datasets
EvalStrategies == {"no", "steps"}

LoadedColumns ==
    {PreferenceColumns \cup extra : extra \in {{}, {"prompt"}, {"ref_completions"},
                                                {"messages", "label"}, ExtraColumns}}

DatasetInit ==
    /\ raw_ds \in {DatasetDictOf(train, test) :
                      train \in LoadedColumns, test \in LoadedColumns}
                  \cup {[kind |-> "Dataset",
                         splits |-> [n \in {"train"} |-> train]] :
                            train \in LoadedColumns}
    /\ dataset_test_split \in
          IF raw_ds.kind = "DatasetDict" THEN {NoneName, "test"} ELSE {NoneName}
    /\ ds = <<>>
    /\ resuming_dir = <<>>
    /\ loaded \in {ld \in DriverTokenizers :
                      /\ ld.tokenizer.pad_token_id = 0
                      /\ ld.tokenizer.eos_token_id = MaxTokenId}
    /\ tokenizer_args_pad_token_id = NoneId
    /\ tc = [chat_template_name |-> NoneName, add_bos_to_chat_template |-> FALSE,
             model_pad_token_id |-> NoneId, model_eos_token_id |-> NoneId]
    /\ get_tokenizer_result = NotCalled
    /\ tokenizer = NoTokenizer
    /\ tpc = "launch"
    /\ last_checkpoint_number = 0
    /\ eval_on_start \in BOOLEAN
    /\ resume_from_checkpoint = FALSE
    /\ trainer_checkpoint = -1
    /\ eval_strategy \in EvalStrategies
    /\ train_launches = 1
    /\ decisions = <<>>
    /\ produced = 0
    /\ partition_start_idx = 0
    /\ partition_end_idx = 0
    /\ num_subpartitions = 1
    /\ subpartition_number = 0
    /\ save_interval = 1
    /\ subparts = <<>>
    /\ GenIdle
    /\ ScanIdle
    /\ DevIdle
    /\ WrkIdle
    /\ ShutIdle

SpecDataset ==
    DatasetInit /\ [][TokenizerSetup \/ DatasetSetup \/ FindLastCheckpoint
                       \/ BuildTrainer]_vars

\* C29: once the dataset setup is over, no split of the dataset that goes to
\* the trainer has one of the columns prompt, completion, messages, label,
\* ref_completions.
C29_ExtraColumnsDropped ==
    (tpc \in {"dataset", "scanned", "built"}) =>
        \A split \in DOMAIN ds : ds[split] \cap ExtraColumns = {}

\* C15: a run of the training driver whose loaded tokenizer has no pad token
\* does not get past the tokenizer setup, and no run is past it with the pad
\* token of its tokenizer unset.
C15_MissingPadFailsFast ==
    (tpc \in {"start", "dataset", "scanned", "built", "training"}) =>
        /\ pad_token(loaded.tokenizer) # NoneStr
        /\ pad_token(tokenizer) # NoneStr

\* ===================================== the devices of the generation workers
\* ",".join(parts)
RECURSIVE JoinComma(_)
JoinComma(parts) ==
    IF Len(parts) = 0 THEN <<>>
    ELSE IF Len(parts) = 1 THEN parts[1]
    ELSE parts[1] \o <<",">> \o JoinComma(Tail(parts))

\* variant: the worker number is not multiplied by tp_size
MutDevicesNoStride(w, tp_size) == [i \in 1 .. tp_size |-> w + (i - 1)]

\* line 95: [config.subpartition_number * tp_size + i for i in range(tp_size)]
CudaDevices(w, tp_size) == [i \in 1 .. tp_size |-> w * tp_size + (i - 1)]

\* line 96: os.environ["CUDA_VISIBLE_DEVICES"] = ",".join(map(str, cuda_devices))
CudaVisibleDevices(devices) ==
    JoinComma([i \in 1 .. Len(devices) |-> Str(devices[i])])

DevInit ==
    /\ num_gpus_per_node \in 1 .. MaxGpus
    /\ tensor_parallel_size \in 1 .. num_gpus_per_node
    /\ num_subpartitions = num_gpus_per_node \div tensor_parallel_size
    /\ cuda_devices = <<>>
    /\ partition_start_idx = 0
    /\ partition_end_idx = 0
    /\ subpartition_number = 0
    /\ save_interval = 1
    /\ subparts = <<>>
    /\ resuming_dir = <<>>
    /\ GenIdle
    /\ ScanIdle
    /\ TrainIdle
    /\ WrkIdle
    /\ ShutIdle
    /\ DsIdle
    /\ EvalIdle
    /\ TokIdle

\* lines 94-97 in the process of worker w (config.subpartition_number = w)
AssignDevices(w) ==
    /\ w \notin DOMAIN cuda_devices
    /\ cuda_devices' =
          [v \in DOMAIN cuda_devices \cup {w} |->
              IF v = w
              THEN [cuda_devices |-> CudaDevices(w, tensor_parallel_size),
                    env |-> CudaVisibleDevices(CudaDevices(w, tensor_parallel_size))]
              ELSE cuda_devices[v]]
    /\ UNCHANGED <<coreVars, wrkVars, tokVars, evalVars, shutVars, dsVars,
                   num_gpus_per_node,
                   tensor_parallel_size>>

DevNext == \E w \in 0 .. (num_subpartitions - 1) : AssignDevices(w)

SpecDevices == DevInit /\ [][DevNext]_vars

DeviceSet(w) ==
    {cuda_devices[w].cuda_devices[i] : i \in 1 .. Len(cuda_devices[w].cuda_devices)}

\* C19: worker w gets exactly the devices w*t, ..., w*t + t-1 (t the tensor
\* parallel size), the device sets of distinct workers are disjoint, and for
\* w < num_gpus_per_node // t every device index is below num_gpus_per_node.
C19_DeviceAssignment ==
    /\ \A w \in DOMAIN cuda_devices :
          /\ DeviceSet(w) = (w * tensor_parallel_size)
                               .. (w * tensor_parallel_size + tensor_parallel_size - 1)
          /\ Len(cuda_devices[w].cuda_devices) = tensor_parallel_size
          /\ \A d \in DeviceSet(w) : d >= 0 /\ d < num_gpus_per_node
    /\ \A v, w \in DOMAIN cuda_devices :
          v # w => DeviceSet(v) \cap DeviceSet(w) = {}

\* six devices, two per worker: the third worker has devices 4 and 5
C19_Witness ==
    /\ num_gpus_per_node = 6
    /\ tensor_parallel_size = 2
    /\ DOMAIN cuda_devices = {0, 1, 2}
    /\ cuda_devices[2].cuda_devices = <<4, 5>>
    /\ cuda_devices[2].env = <<"4", ",", "5">>

\* ================================ generation workers running side by side
\* The working directory a worker is started in, which line 126 takes as its
\* resuming directory: one directory per subpartition number.
ResumingDirOf(w) == w

WorkerNumbers == 0 .. MaxWorkerNo

WorkersInit ==
    /\ partition_start_idx \in 0 .. 1
    /\ partition_end_idx \in partition_start_idx .. MaxWorkEnd
    /\ num_subpartitions \in 1 .. MaxWorkerNo
    /\ save_interval \in 1 .. 2
    /\ subpartition_number = 0
    /\ subparts = <<>>
    /\ resuming_dir = <<>>
    /\ workers = [w \in WorkerNumbers |->
                    [pc |-> "off", subpartition_start_idx |-> 0,
                     subpartition_end_idx |-> 0, local_start_idx |-> 0,
                     local_end_idx |-> 0]]
    /\ processed = [w \in WorkerNumbers |-> {}]
    /\ worker_dirs = [d \in {ResumingDirOf(w) : w \in WorkerNumbers} |-> InitialDir]
    /\ writers = [d \in {ResumingDirOf(w) : w \in WorkerNumbers} |-> {}]
    /\ GenIdle
    /\ ScanIdle
    /\ TrainIdle
    /\ DevIdle
    /\ TokIdle
    /\ EvalIdle
    /\ ShutIdle
    /\ DsIdle

\* lines 109-140 in worker w: its sub-range, the empty test, the scan of its
\* own resuming directory
WorkerStart(w) ==
    /\ workers[w].pc = "off"
    /\ LET se == compute_subpartition_start_end_indices(
                    partition_start_idx, partition_end_idx, w, num_subpartitions)
           scan == GenScan(worker_dirs[ResumingDirOf(w)])
       IN  workers' = [workers EXCEPT ![w] =
              [pc |-> IF IsEmptySubpartition(se) THEN "done"
                      ELSE IF scan.raised THEN "failed"
                      ELSE "loop",
               subpartition_start_idx |-> se[1],
               subpartition_end_idx |-> se[2],
               local_start_idx |-> IF IsEmptySubpartition(se) THEN 0 ELSE scan.value,
               local_end_idx |-> 0]]
    /\ UNCHANGED <<coreVars, devVars, tokVars, evalVars, shutVars, dsVars,
                   processed, worker_dirs, writers>>

WorkerLen(w) == workers[w].subpartition_end_idx - workers[w].subpartition_start_idx

\* lines 150-165 in worker w: the next slice goes through the transform
WorkerTransform(w) ==
    /\ workers[w].pc = "loop"
    /\ workers[w].local_start_idx < WorkerLen(w)
    /\ LET local_end == Min(workers[w].local_start_idx + save_interval, WorkerLen(w))
       IN  /\ workers' = [workers EXCEPT ![w].pc = "persisting",
                                         ![w].local_end_idx = local_end]
           /\ processed' = [processed EXCEPT ![w] = @ \cup
                  {workers[w].subpartition_start_idx + j :
                       j \in workers[w].local_start_idx .. (local_end - 1)}]
    /\ UNCHANGED <<coreVars, devVars, tokVars, evalVars, shutVars, dsVars,
                   worker_dirs, writers>>

\* lines 166-172 in worker w: the checkpoint is saved, the loop advances
WorkerSave(w) ==
    /\ workers[w].pc = "persisting"
    /\ worker_dirs' = [worker_dirs EXCEPT ![ResumingDirOf(w)] =
          WriteEntry(@, CheckpointName(workers[w].local_end_idx),
                     Entry(TRUE, {}, {}, <<>>, TRUE))]
    /\ writers' = [writers EXCEPT ![ResumingDirOf(w)] = @ \cup {w}]
    /\ workers' = [workers EXCEPT ![w].pc = "loop",
                                  ![w].local_start_idx = workers[w].local_end_idx]
    /\ UNCHANGED <<coreVars, devVars, tokVars, evalVars, shutVars, dsVars,
                   processed>>

\* line 150, guard false: worker w has finished its sub-range
WorkerFinish(w) ==
    /\ workers[w].pc = "loop"
    /\ workers[w].local_start_idx >= WorkerLen(w)
    /\ workers' = [workers EXCEPT ![w].pc = "done"]
    /\ UNCHANGED <<coreVars, devVars, tokVars, evalVars, shutVars, dsVars,
                   processed, worker_dirs, writers>>

WorkersNext ==
    \E w \in WorkerNumbers :
        \/ WorkerStart(w)
        \/ WorkerTransform(w)
        \/ WorkerSave(w)
        \/ WorkerFinish(w)

SpecWorkers == WorkersInit /\ [][WorkersNext]_vars

last_eval_file == <<"eval", "_", "results.json">>

\* variant: the metrics are saved under the split name "train"
MutSaveMetricsTrain(split) == <<"train", "_", "results.json">>

\* trainer.save_metrics(split, metrics) writes <output_dir>/<split>_results.json
save_metrics_file(split) == <<split, "_", "results.json">>

EvalDirNames == {CheckpointName(1), last_eval_file}

EvalDirOptions ==
    [n \in EvalDirNames |->
        IF n = last_eval_file THEN {PlainFile}
        ELSE {PlainDir(f, {}) : f \in {{}, CompanionFiles}}]


EvalInit ==
    /\ resuming_dir \in DirsOver(EvalDirNames, EvalDirOptions)
    /\ loaded \in {ld \in DriverTokenizers :
                      /\ ld.tokenizer.pad_token_id = 0
                      /\ ld.tokenizer.eos_token_id = MaxTokenId}
    /\ tokenizer_args_pad_token_id = NoneId
    /\ tc = [chat_template_name |-> NoneName, add_bos_to_chat_template |-> FALSE,
             model_pad_token_id |-> NoneId, model_eos_token_id |-> NoneId]
    /\ get_tokenizer_result = NotCalled
    /\ tokenizer = NoTokenizer
    /\ tpc = "launch"
    /\ last_checkpoint_number = 0
    /\ eval_on_start \in BOOLEAN
    /\ resume_from_checkpoint = FALSE
    /\ trainer_checkpoint = -1
    /\ eval_strategy \in EvalStrategies
    /\ train_launches = 1
    /\ decisions = <<>>
    /\ produced = 0
    /\ partition_start_idx = 0
    /\ partition_end_idx = 0
    /\ num_subpartitions = 1
    /\ subpartition_number = 0
    /\ save_interval = 1
    /\ subparts = <<>>
    /\ GenIdle
    /\ ScanIdle
    /\ DevIdle
    /\ WrkIdle
    /\ ShutIdle
    /\ raw_ds = DatasetDictOf(PreferenceColumns, PreferenceColumns)
    /\ dataset_test_split = "test"
    /\ ds = <<>>

\* line 205 returns: training is over; the trainer may have saved a checkpoint
\* with its companion files on the way
TrainerReturns ==
    /\ tpc = "training"
    /\ tpc' = "trained"
    /\ \E saved \in BOOLEAN :
          resuming_dir' =
              IF saved
              THEN WriteEntry(resuming_dir,
                              CheckpointName(Min(trainer_checkpoint + 1, MaxScanN)),
                              PlainDir(CompanionFiles, {}))
              ELSE resuming_dir
    /\ UNCHANGED <<sideVars, confVars, subparts, genVars, histVars, scanVars,
                   last_checkpoint_number, eval_on_start, resume_from_checkpoint,
                   trainer_checkpoint>>

Decision(evaluated) ==
    [launch |-> train_launches, eval_strategy |-> eval_strategy,
     existed |-> last_eval_file \in DOMAIN resuming_dir, evaluated |-> evaluated]

\* lines 208-215: the final evaluation runs unless eval_strategy is "no" or
\* eval_results.json exists
FinalEvaluation ==
    /\ tpc = "trained"
    /\ IF eval_strategy # "no" /\ last_eval_file \notin DOMAIN resuming_dir
       THEN /\ tpc' = "evaluated"
            /\ decisions' = Append(decisions, Decision(TRUE))
       ELSE /\ tpc' = "finished"
            /\ decisions' = Append(decisions, Decision(FALSE))
    /\ UNCHANGED <<confVars, subparts, resuming_dir, genVars, histVars, scanVars,
                   devVars, wrkVars, tokVars, shutVars, dsVars, eval_strategy,
                   train_launches,
                   produced, last_checkpoint_number, eval_on_start,
                   resume_from_checkpoint, trainer_checkpoint>>

\* lines 216-218: the metrics of the final evaluation are saved
SaveMetrics ==
    /\ tpc = "evaluated"
    /\ resuming_dir' = WriteEntry(resuming_dir, save_metrics_file("eval"), PlainFile)
    /\ produced' = IF produced = 0 THEN train_launches ELSE produced
    /\ tpc' = "finished"
    /\ UNCHANGED <<confVars, subparts, genVars, histVars, scanVars, devVars, wrkVars,
                   shutVars, dsVars,
                   tokVars, eval_strategy, train_launches, decisions,
                   last_checkpoint_number, eval_on_start, resume_from_checkpoint,
                   trainer_checkpoint>>

\* the process is killed during training, or between trainer.evaluate() and
\* trainer.save_metrics
TrainKill ==
    /\ tpc \in {"training", "evaluated"}
    /\ tpc' = "killed"
    /\ UNCHANGED <<sideVars, confVars, subparts, resuming_dir, genVars, histVars,
                   scanVars, last_checkpoint_number, eval_on_start,
                   resume_from_checkpoint, trainer_checkpoint>>

\* the driver is launched again on the same output directory, with the
\* evaluation settings of the new launch
TrainRelaunch ==
    /\ tpc \in {"finished", "killed", "failed", "tokenizer_error"}
    /\ train_launches < MaxTrainLaunches
    /\ train_launches' = train_launches + 1
    /\ tpc' = "launch"
    /\ tokenizer' = NoTokenizer
    /\ last_checkpoint_number' = 0
    /\ resume_from_checkpoint' = FALSE
    /\ trainer_checkpoint' = -1
    /\ eval_on_start' \in BOOLEAN
    /\ eval_strategy' \in EvalStrategies
    /\ UNCHANGED <<confVars, subparts, resuming_dir, genVars, histVars, scanVars,
                   devVars, wrkVars, shutVars, dsVars, loaded, tc, get_tokenizer_result,
                   tokenizer_args_pad_token_id, decisions, produced>>

EvalNext ==
    \/ TokenizerSetup
    \/ DatasetSetup
    \/ FindLastCheckpoint
    \/ BuildTrainer
    \/ TrainerTrain
    \/ TrainerReturns
    \/ FinalEvaluation
    \/ SaveMetrics
    \/ TrainKill
    \/ TrainRelaunch

SpecEval == EvalInit /\ [][EvalNext]_vars

\* C18: a launch that gets past training performs the final evaluation if and
\* only if its eval_strategy is not "no" and eval_results.json is absent; no
\* launch after the one that produced eval_results.json evaluates again.
C18_FinalEvaluationOnce ==
    \A i \in DOMAIN decisions :
        /\ decisions[i].evaluated <=>
              (decisions[i].eval_strategy # "no" /\ ~decisions[i].existed)
        /\ (produced > 0 /\ decisions[i].launch > produced) =>
              ~decisions[i].evaluated
        /\ (produced > 0 /\ decisions[i].launch > produced) => decisions[i].existed

\* the first launch evaluated and saved eval_results.json; the second, also
\* with an eval_strategy other than "no", found it and did not evaluate
C18_Witness ==
    /\ Len(decisions) = 2
    /\ produced = 1
    /\ decisions[1].launch = 1
    /\ decisions[1].evaluated
    /\ decisions[2].launch = 2
    /\ decisions[2].eval_strategy = "steps"
    /\ decisions[2].existed
    /\ ~decisions[2].evaluated
    /\ tpc = "finished"

\* ======================== shutdown of the training driver, lines 220 to 226
\* acc_state.is_main_process: the process of index 0
is_main_process(p) == p = 0

ShutInit ==
    /\ num_processes \in 1 .. MaxProcs
    /\ procs = [p \in 0 .. (num_processes - 1) |-> "evaluating"]
    /\ finishers = <<>>
    /\ partition_start_idx = 0
    /\ partition_end_idx = 0
    /\ num_subpartitions = 1
    /\ subpartition_number = 0
    /\ save_interval = 1
    /\ subparts = <<>>
    /\ resuming_dir = <<>>
    /\ GenIdle
    /\ ScanIdle
    /\ TrainIdle
    /\ DevIdle
    /\ WrkIdle
    /\ TokIdle
    /\ EvalIdle
    /\ DsIdle

\* process p takes one step: its position becomes to, the list of finishers f
ShutStep(p, from, to, f) ==
    /\ procs[p] = from
    /\ procs' = [procs EXCEPT ![p] = to]
    /\ finishers' = f
    /\ UNCHANGED <<coreVars, devVars, wrkVars, tokVars, evalVars, dsVars, num_processes>>

\* line 220: after training and the final evaluation, p enters the first
\* wait_for_everyone()
EnterFirstBarrier(p) == ShutStep(p, "evaluating", "barrier 1", finishers)

\* line 220 returns in p once every process has entered it
LeaveFirstBarrier(p) ==
    /\ \A q \in DOMAIN procs : procs[q] # "evaluating"
    /\ ShutStep(p, "barrier 1", "line 222", finishers)

\* variant: every process takes the branch of line 222
MutEveryoneFinishes(p) == ShutStep(p, "line 222", "finishing", Append(finishers, p))

\* lines 222-223: the main process starts wandb.finish()
StartFinish(p) ==
    /\ is_main_process(p)
    /\ ShutStep(p, "line 222", "finishing", Append(finishers, p))

\* lines 223-225: wandb.finish() and try_sync_wandb() return; the main process
\* enters the second wait_for_everyone()
EndFinish(p) == ShutStep(p, "finishing", "barrier 2", finishers)

\* lines 222, 225: another process skips the branch and enters the second
\* wait_for_everyone()
SkipFinish(p) ==
    /\ ~is_main_process(p)
    /\ ShutStep(p, "line 222", "barrier 2", finishers)

\* line 225 returns in p once every process has entered it
LeaveSecondBarrier(p) ==
    /\ \A q \in DOMAIN procs : procs[q] \in {"barrier 2", "line 226", "ended"}
    /\ ShutStep(p, "barrier 2", "line 226", finishers)

\* line 226: end_training()
EndTraining(p) == ShutStep(p, "line 226", "ended", finishers)

ShutNext ==
    \E p \in DOMAIN procs :
        \/ EnterFirstBarrier(p)
        \/ LeaveFirstBarrier(p)
        \/ StartFinish(p)
        \/ EndFinish(p)
        \/ SkipFinish(p)
        \/ LeaveSecondBarrier(p)
        \/ EndTraining(p)

SpecShutdown == ShutInit /\ [][ShutNext]_vars

\* C26: wandb.finish() is executed at most once, by the main process, and
\* exactly once when the shutdown is over; while it runs, and ever after, no
\* process is still before the first barrier; a process that has gone on to
\* end_training finds the main process past its wandb.finish().
C26_FinishOnceBetweenBarriers ==
    /\ Len(finishers) <= 1
    /\ \A i \in DOMAIN finishers : is_main_process(finishers[i])
    /\ (finishers # <<>>) => \A q \in DOMAIN procs : procs[q] # "evaluating"
    /\ (\E q \in DOMAIN procs : procs[q] \in {"line 226", "ended"}) =>
          /\ finishers = <<0>>
          /\ procs[0] \in {"barrier 2", "line 226", "ended"}

\* three processes: the main process is inside wandb.finish() while the other
\* two wait in the second barrier
C26_Witness ==
    /\ num_processes = 3
    /\ procs[0] = "finishing"
    /\ procs[1] = "barrier 2"
    /\ procs[2] = "barrier 2"
    /\ finishers = <<0>>

====
